---- MODULE Spec2Model ----
(***************************************************************************)
(* A model of lineapy's dependency Graph (lineapy/data/graph.py) and of    *)
(* its execution context (lineapy/execution/context.py).                   *)
(*                                                                         *)
(* Graph: a node list is drawn in Init; GraphInit is Graph.__init__ (edge  *)
(* derivation, line-number edges, acyclicity validation); the queries      *)
(* visit_order and get_node_value act on a constructed graph.              *)
(*                                                                         *)
(* Execution context: SetContext, GetContext and TeardownContext are the   *)
(* module's three functions; between set and teardown the call body reads  *)
(* and writes the managed globals and pushes side effects of its own.      *)
(***************************************************************************)
EXTENDS Integers, Sequences, FiniteSets, TLC

VARIABLES
    nodes,        \* Graph._nodes: the node list handed to Graph.__init__
    gpc,          \* "input" before Graph.__init__, then "built" or "failed"
    gerr,         \* the exception Graph.__init__ raised ("" when none)
    nx_nodes,     \* Graph._nx_graph: its nodes, in insertion order
    nx_edges,     \* Graph._nx_graph: its edges <<u, v>>, in insertion order
    edges,        \* Graph._edges: the reference-derived DirectedEdge list
    line_edges,   \* the list __get_edges_from_line_number returned
    sorted_desc,  \* per DataSourceNode id, its sorted `descendants` list
    qres,         \* the last query and what it returned
    current_context,   \* context.py's _current_context (NoContext is None)
    global_variables,  \* context.py's _global_variables, the GlobalsDict
    ctx_res            \* the last context call: what it raised or returned

gvars == <<nodes, gpc, gerr, nx_nodes, nx_edges, edges, line_edges, sorted_desc, qres>>

cvars == <<current_context, global_variables, ctx_res>>

vars == <<gvars, cvars>>

(***************************************************************************)
(* Bounds of the model.                                                    *)
(***************************************************************************)
\* longest node list of the general family (every node variant)
MaxNodes == 2
\* the line-number family holds at most this many nodes of each variant
MaxDataSources == 2
MaxArguments == 2
MaxCalls == 2
\* a CallNode of the line-number family lists at most MaxArgs arguments
MaxArgs == 2
\* source line numbers of CallNodes are 1..MaxLine
MaxLine == 2
\* the executor holds the values of the node ids 1..MaxCtxIds
MaxCtxIds == 2
\* the call body pushes at most MaxPushed side effects of its own
MaxPushed == 2

(***************************************************************************)
(* Nodes.  A LineaID is a positive integer; NoneId is Python's None in an  *)
(* Optional[LineaID] field.  A value is a pair <<field, id>>: the value    *)
(* stored in that field of the node with that id, so that reading the      *)
(* wrong field or the wrong node is visible.                               *)
(***************************************************************************)
NoneId == 0

NoneValue == <<"None", 0>>

AttributeError == <<"AttributeError", 0>>

NodeTypes ==
    {"CallNode", "ArgumentNode", "ImportNode", "VariableNode", "DataSourceNode",
     "StateChangeNode", "LoopNode", "ConditionNode", "FunctionDefinitionNode",
     "LiteralNode"}

\* a node with every reference absent
BlankNode(i, t) ==
    [id |-> i, node_type |-> t, lineno |-> 0,
     arguments |-> <<>>, function_module |-> NoneId,
     locally_defined_function_id |-> NoneId,
     value_node_id |-> NoneId, has_literal |-> FALSE,
     keyword |-> "", positional_order |-> -1,
     import_nodes |-> <<>>, input_state_change_nodes |-> <<>>,
     state_dependency_type |-> "", associated_node_id |-> NoneId,
     initial_value_node_id |-> NoneId, source_variable_id |-> NoneId]

\* the variants whose record carries a `value` attribute
HasValueAttr(t) ==
    t \in {"CallNode", "VariableNode", "StateChangeNode", "LiteralNode",
           "LoopNode", "ConditionNode", "FunctionDefinitionNode"}

(***************************************************************************)
(* Node constructors: a node list is built from these.                     *)
(***************************************************************************)
CallNode(i, args, fm, ldf, line) ==
    [BlankNode(i, "CallNode") EXCEPT !.arguments = args, !.function_module = fm,
        !.locally_defined_function_id = ldf, !.lineno = line]

\* an argument with a literal (lit) or a value reference r (NoneId: absent),
\* bound by keyword kw ("" is None) or positional index pos (-1 is None)
ArgumentNode(i, lit, r, kw, pos) ==
    [BlankNode(i, "ArgumentNode") EXCEPT !.has_literal = lit, !.value_node_id = r,
        !.keyword = kw, !.positional_order = pos]

VariableNode(i, r) == [BlankNode(i, "VariableNode") EXCEPT !.source_variable_id = r]

StateChangeWrite(i, r) ==
    [BlankNode(i, "StateChangeNode") EXCEPT !.state_dependency_type = "Write",
        !.associated_node_id = r]

StateChangeRead(i, r) ==
    [BlankNode(i, "StateChangeNode") EXCEPT !.state_dependency_type = "Read",
        !.initial_value_node_id = r]

SideEffectsNode(i, t, imports, scs) ==
    [BlankNode(i, t) EXCEPT !.import_nodes = imports, !.input_state_change_nodes = scs]

(***************************************************************************)
(* Graph.get_parents_from_node and the edge derivation.                    *)
(***************************************************************************)
Range(s) == {s[k] : k \in DOMAIN s}

\* `if x is not None: source_nodes.append(x)`
OptionalId(r) == IF r # NoneId THEN <<r>> ELSE <<>>

get_parents_from_node(node) ==
    CASE node.node_type = "CallNode" ->
           node.arguments \o OptionalId(node.function_module)
                          \o OptionalId(node.locally_defined_function_id)
      [] node.node_type = "ArgumentNode" -> OptionalId(node.value_node_id)
      [] node.node_type \in {"LoopNode", "ConditionNode", "FunctionDefinitionNode"} ->
           node.import_nodes \o node.input_state_change_nodes
      [] node.node_type = "StateChangeNode" ->
           IF node.state_dependency_type = "Write" THEN <<node.associated_node_id>>
           ELSE IF node.state_dependency_type = "Read" THEN <<node.initial_value_node_id>>
           ELSE <<>>
      [] node.node_type = "VariableNode" -> <<node.source_variable_id>>
      [] OTHER -> <<>>

\* Graph.__get_edges_to_node: one DirectedEdge <<source, sink>> per parent
get_edges_to_node(node) ==
    LET ps == get_parents_from_node(node)
    IN  [k \in 1..Len(ps) |-> <<ps[k], node.id>>]

\* Graph.__get_edges_from_nodes
RECURSIVE get_edges_from_nodes(_)
get_edges_from_nodes(ns) ==
    IF ns = <<>> THEN <<>>
    ELSE get_edges_to_node(Head(ns)) \o get_edges_from_nodes(Tail(ns))

(***************************************************************************)
(* networkx.DiGraph, as Graph uses it: a graph is [n |-> nodes in          *)
(* insertion order, e |-> edges in insertion order].                       *)
(***************************************************************************)
AddNodeTo(N, x) == IF x \in Range(N) THEN N ELSE Append(N, x)

\* DiGraph.add_nodes_from
RECURSIVE add_nodes_from(_, _)
add_nodes_from(N, xs) ==
    IF xs = <<>> THEN N ELSE add_nodes_from(AddNodeTo(N, Head(xs)), Tail(xs))

\* DiGraph.add_edges_from: an endpoint that is no node yet becomes one
RECURSIVE add_edges_from(_, _)
add_edges_from(G, es) ==
    IF es = <<>> THEN G
    ELSE LET ed == Head(es)
         IN  add_edges_from(
               [n |-> AddNodeTo(AddNodeTo(G.n, ed[1]), ed[2]),
                e |-> IF ed \in Range(G.e) THEN G.e ELSE Append(G.e, ed)],
               Tail(es))

has_edge(G, u, v) == <<u, v>> \in Range(G.e)

\* the nodes reachable from the set S (S included)
RECURSIVE Reach(_, _)
Reach(G, S) ==
    LET next == S \cup {ed[2] : ed \in {x \in Range(G.e) : x[1] \in S}}
    IN  IF next = S THEN S ELSE Reach(G, next)

\* networkx.descendants
descendants(G, s) == Reach(G, {s}) \ {s}

\* networkx.ancestors is not used by the model; a node is on a cycle when it
\* is reachable from one of its successors
OnCycle(G, v) == v \in Reach(G, {ed[2] : ed \in {x \in Range(G.e) : x[1] = v}})

\* a validation that recognises only a self-reference as a cycle
is_acyclic_ignoring_longer_cycles(G) == \A v \in Range(G.n) : ~has_edge(G, v, v)

\* networkx.is_directed_acyclic_graph
is_directed_acyclic_graph(G) == \A v \in Range(G.n) : ~OnCycle(G, v)

\* networkx.topological_sort: Kahn's algorithm, the nodes of in-degree zero
\* taken first-in first-out, in the graph's insertion order
InDegree(G, v) == Cardinality({ed \in Range(G.e) : ed[2] = v})

neighbors(G, u) == SelectSeq(G.e, LAMBDA ed : ed[1] = u)

RECURSIVE Kahn(_, _, _, _)
Kahn(G, queue, indeg, out) ==
    IF queue = <<>> THEN out
    ELSE LET u == Head(queue)
             cs == neighbors(G, u)
             indeg2 == [v \in DOMAIN indeg |->
                          indeg[v] - Cardinality({k \in DOMAIN cs : cs[k][2] = v})]
             zero == SelectSeq([k \in DOMAIN cs |-> cs[k][2]],
                               LAMBDA v : indeg[v] > 0 /\ indeg2[v] = 0)
         IN  Kahn(G, Tail(queue) \o zero, indeg2, Append(out, u))

topological_sort(G) ==
    LET indeg == [v \in Range(G.n) |-> InDegree(G, v)]
    IN  Kahn(G, SelectSeq(G.n, LAMBDA v : indeg[v] = 0), indeg, <<>>)

(***************************************************************************)
(* Lookups and get_node_value.                                             *)
(***************************************************************************)
\* Graph._ids: the ids of the node list
Ids(ns) == {ns[k].id : k \in DOMAIN ns}

NodeOf(ns, i) == ns[CHOOSE k \in DOMAIN ns : ns[k].id = i]

\* Python's None where a node is expected
NoNode == BlankNode(NoneId, "None")

\* Graph.get_node
get_node(ns, i) == IF i # NoneId /\ i \in Ids(ns) THEN NodeOf(ns, i) ELSE NoNode

\* `source.value`: the attribute read at the end of the alias branch
ValueAttr(node) ==
    IF node # NoNode /\ HasValueAttr(node.node_type) THEN <<"value", node.id>>
    ELSE AttributeError

\* the `while source is not None and source.node_type is VariableNode` loop
RECURSIVE AliasLoop(_, _)
AliasLoop(ns, source) ==
    IF source # NoNode /\ source.node_type = "VariableNode"
    THEN AliasLoop(ns, get_node(ns, source.source_variable_id))
    ELSE source

\* Graph.get_node_value
RECURSIVE get_node_value(_, _)
get_node_value(ns, node) ==
    IF node = NoNode THEN NoneValue
    ELSE CASE node.node_type = "VariableNode" ->
                LET source == get_node(ns, node.source_variable_id)
                IN  IF source = NoNode THEN NoneValue
                    ELSE ValueAttr(AliasLoop(ns, source))
           [] node.node_type = "ArgumentNode" ->
                IF node.has_literal THEN <<"value_literal", node.id>>
                ELSE IF node.value_node_id # NoneId
                THEN get_node_value(ns, get_node(ns, node.value_node_id))
                ELSE NoneValue
           [] node.node_type = "DataSourceNode" -> <<"access_path", node.id>>
           [] node.node_type = "ImportNode" -> <<"module", node.id>>
           [] OTHER -> ValueAttr(node)

(***************************************************************************)
(* Graph.__get_edges_from_line_number.                                     *)
(***************************************************************************)
DataSourceIds(ns) == {ns[k].id : k \in {j \in DOMAIN ns : ns[j].node_type = "DataSourceNode"}}

\* the descendants of a DataSourceNode that are CallNodes
CallDescendants(ns, G, d) ==
    {x \in descendants(G, d) : x \in Ids(ns) /\ NodeOf(ns, x).node_type = "CallNode"}

\* get_node_else_raise raises NullValueError on a descendant that is no node
LineNumberLookupFails(ns, G) ==
    \E d \in DataSourceIds(ns) : \E x \in descendants(G, d) : x \notin Ids(ns)

\* what `descendants.sort(key=lineno)` can leave: the list is built from a
\* set, whose iteration order is arbitrary, and the sort is stable, so any
\* order of the calls that is ascending in lineno can result
SortedOrders(ns, S) ==
    {p \in [1..Cardinality(S) -> S] :
        /\ \A j, k \in DOMAIN p : j # k => p[j] # p[k]
        /\ \A j, k \in DOMAIN p : j < k => NodeOf(ns, p[j]).lineno <= NodeOf(ns, p[k]).lineno}

\* the edges between the consecutive descendants of one DataSourceNode
ConsecutiveEdges(G, ds) ==
    SelectSeq([k \in 1..(Len(ds) - 1) |-> <<ds[k], ds[k + 1]>>],
              LAMBDA ed : ~(has_edge(G, ed[1], ed[2]) \/ has_edge(G, ed[2], ed[1])))

\* the DataSourceNodes are visited in the order of the node list
RECURSIVE get_edges_from_line_number(_, _, _)
get_edges_from_line_number(ns, G, sd) ==
    IF ns = <<>> THEN <<>>
    ELSE (IF Head(ns).node_type = "DataSourceNode"
          THEN ConsecutiveEdges(G, sd[Head(ns).id]) ELSE <<>>)
         \o get_edges_from_line_number(Tail(ns), G, sd)

(***************************************************************************)
(* The node lists handed to Graph.__init__ (the tracer's output).          *)
(*                                                                         *)
(* General family: up to MaxNodes nodes, the node at position i has id i,  *)
(* every variant occurs, and each node carries at most one reference, to   *)
(* any id of 1..MaxNodes+1.  An id that no node of the list has is a       *)
(* dangling reference; a reference to a later node or to the node itself   *)
(* is allowed, so that reference cycles occur.  An ArgumentNode may lack   *)
(* its value or its binding slot.                                          *)
(***************************************************************************)
GeneralChoices(i) ==
    LET R == 1..(MaxNodes + 1) IN
      {BlankNode(i, "DataSourceNode"), BlankNode(i, "ImportNode"),
       BlankNode(i, "LiteralNode"), BlankNode(i, "FunctionDefinitionNode"),
       ArgumentNode(i, TRUE, NoneId, "", 0),
       ArgumentNode(i, FALSE, NoneId, "", 0),
       ArgumentNode(i, TRUE, NoneId, "", -1),
       CallNode(i, <<>>, NoneId, NoneId, 1)}
      \cup {ArgumentNode(i, FALSE, r, "", 0) : r \in R}
      \cup {CallNode(i, <<r>>, NoneId, NoneId, 1) : r \in R}
      \cup {CallNode(i, <<>>, r, NoneId, 1) : r \in R}
      \cup {CallNode(i, <<>>, NoneId, r, 1) : r \in R}
      \cup {SideEffectsNode(i, "LoopNode", <<r>>, <<>>) : r \in R}
      \cup {SideEffectsNode(i, "ConditionNode", <<>>, <<r>>) : r \in R}
      \cup {StateChangeWrite(i, r) : r \in R}
      \cup {StateChangeRead(i, r) : r \in R}
      \cup {VariableNode(i, r) : r \in R}

AddNode ==
    /\ gpc = "input"
    /\ Len(nodes) < MaxNodes
    /\ \E c \in GeneralChoices(Len(nodes) + 1) : nodes' = Append(nodes, c)
    /\ UNCHANGED <<gpc, gerr, nx_nodes, nx_edges, edges, line_edges, sorted_desc, qres>>
    /\ UNCHANGED cvars

(***************************************************************************)
(* Line-number family: DataSourceNodes, then ArgumentNodes, then           *)
(* CallNodes, each variant with its own range of ids.  An argument is a    *)
(* literal or refers to a DataSourceNode or a CallNode; a call lists up to *)
(* MaxArgs ArgumentNodes and has a line number of 1..MaxLine.              *)
(***************************************************************************)
DataSourceIdSpace == 1..MaxDataSources

ArgumentIdSpace == (MaxDataSources + 1)..(MaxDataSources + MaxArguments)

CallIdSpace ==
    (MaxDataSources + MaxArguments + 1)..(MaxDataSources + MaxArguments + MaxCalls)

\* the elements of a set of integers, ascending
RECURSIVE Ascending(_)
Ascending(S) ==
    IF S = {} THEN <<>>
    ELSE LET m == CHOOSE x \in S : \A y \in S : x <= y
         IN  <<m>> \o Ascending(S \ {m})

TypesIn(ns) == {ns[k].node_type : k \in DOMAIN ns}

AddLineNode ==
    /\ gpc = "input"
    /\ \/ /\ TypesIn(nodes) \subseteq {"DataSourceNode"}
          /\ \E i \in DataSourceIdSpace :
               /\ i = Len(nodes) + 1
               /\ nodes' = Append(nodes, BlankNode(i, "DataSourceNode"))
       \/ /\ "CallNode" \notin TypesIn(nodes)
          /\ \E i \in ArgumentIdSpace :
               /\ i \notin Ids(nodes)
               /\ \A j \in ArgumentIdSpace : j < i => j \in Ids(nodes)
               /\ \E c \in {ArgumentNode(i, TRUE, NoneId, "", 0)}
                        \cup {ArgumentNode(i, FALSE, r, "", 0) :
                                r \in DataSourceIdSpace \cup CallIdSpace} :
                    nodes' = Append(nodes, c)
       \/ \E i \in CallIdSpace :
            /\ i \notin Ids(nodes)
            /\ \A j \in CallIdSpace : j < i => j \in Ids(nodes)
            /\ \E A \in SUBSET ArgumentIdSpace, l \in 1..MaxLine :
                 /\ Cardinality(A) <= MaxArgs
                 /\ nodes' = Append(nodes, CallNode(i, Ascending(A), NoneId, NoneId, l))
    /\ UNCHANGED <<gpc, gerr, nx_nodes, nx_edges, edges, line_edges, sorted_desc, qres>>
    /\ UNCHANGED cvars

(***************************************************************************)
(* Graph.__init__.                                                         *)
(***************************************************************************)
\* self._nx_graph after add_nodes_from and the first add_edges_from
ReferenceGraph(ns) ==
    add_edges_from([n |-> add_nodes_from(<<>>, [k \in DOMAIN ns |-> ns[k].id]), e |-> <<>>],
                   get_edges_from_nodes(ns))

\* the `descendants` lists the sort can produce, one per DataSourceNode
SortOutcomes(ns, G) ==
    LET D == DataSourceIds(ns)
        all == UNION {SortedOrders(ns, CallDescendants(ns, G, d)) : d \in D}
    IN  {f \in [D -> all] : \A d \in D : f[d] \in SortedOrders(ns, CallDescendants(ns, G, d))}

\* self._nx_graph after the second add_edges_from
FullGraph(G, les) == add_edges_from(G, les)

GraphInit ==
    /\ gpc = "input"
    /\ nodes # <<>>
    /\ LET G1 == ReferenceGraph(nodes) IN
         /\ edges' = get_edges_from_nodes(nodes)
         /\ IF LineNumberLookupFails(nodes, G1)
            THEN /\ gpc' = "failed"
                 /\ gerr' = "NullValueError"
                 /\ nx_nodes' = G1.n
                 /\ nx_edges' = G1.e
                 /\ UNCHANGED <<line_edges, sorted_desc>>
            ELSE \E sd \in SortOutcomes(nodes, G1) :
                   LET les == get_edges_from_line_number(nodes, G1, sd)
                       G2 == FullGraph(G1, les)
                   IN  /\ sorted_desc' = sd
                       /\ line_edges' = les
                       /\ nx_nodes' = G2.n
                       /\ nx_edges' = G2.e
                       /\ IF is_directed_acyclic_graph(G2)
                          THEN gpc' = "built" /\ gerr' = ""
                          ELSE gpc' = "failed" /\ gerr' = "InternalLogicError"
    /\ UNCHANGED <<nodes, qres>>
    /\ UNCHANGED cvars

\* the graph a query reads
NxGraph == [n |-> nx_nodes, e |-> nx_edges]

\* Graph.visit_order
VisitOrder ==
    /\ gpc = "built"
    /\ qres' = [op |-> "visit_order", arg |-> NoneId, res |-> topological_sort(NxGraph)]
    /\ UNCHANGED <<nodes, gpc, gerr, nx_nodes, nx_edges, edges, line_edges, sorted_desc>>
    /\ UNCHANGED cvars

\* Graph.get_node_value on a node of the graph
GetNodeValue ==
    /\ gpc = "built"
    /\ \E i \in Ids(nodes) :
         qres' = [op |-> "get_node_value", arg |-> i,
                  res |-> get_node_value(nodes, NodeOf(nodes, i))]
    /\ UNCHANGED <<nodes, gpc, gerr, nx_nodes, nx_edges, edges, line_edges, sorted_desc>>
    /\ UNCHANGED cvars

GraphInitState ==
    /\ nodes = <<>>
    /\ gpc = "input"
    /\ gerr = ""
    /\ nx_nodes = <<>>
    /\ nx_edges = <<>>
    /\ edges = <<>>
    /\ line_edges = <<>>
    /\ sorted_desc = <<>>
    /\ qres = [op |-> "", arg |-> NoneId, res |-> <<>>]


GraphQueries == VisitOrder \/ GetNodeValue

(***************************************************************************)
(* Graph.get_arguments_from_call_node.                                     *)
(***************************************************************************)
MaxCallArgs == 3

ArgKeywords == {"a", "b"}

\* lineapy.graph_reader.graph_helper.get_arg_position, the sort key
get_arg_position(a) == a.positional_order

\* list.sort(key=get_arg_position): x placed behind the elements of the
\* sorted list s whose key is not greater (the sort is stable)
RECURSIVE InsertByPosition(_, _)
InsertByPosition(x, s) ==
    IF s = <<>> THEN <<x>>
    ELSE IF get_arg_position(Head(s)) <= get_arg_position(x)
    THEN <<Head(s)>> \o InsertByPosition(x, Tail(s))
    ELSE <<x>> \o s

RECURSIVE SortByPosition(_)
SortByPosition(s) ==
    IF s = <<>> THEN <<>>
    ELSE InsertByPosition(s[Len(s)], SortByPosition(SubSeq(s, 1, Len(s) - 1)))

\* kwarg_values after the loop: a keyword holds the value of the last
\* argument of the list that carries it
KwargValues(ns, arg_list) ==
    LET kws == {arg_list[k].keyword : k \in {j \in DOMAIN arg_list : arg_list[j].keyword # ""}}
        last(kw) == CHOOSE k \in DOMAIN arg_list :
                      /\ arg_list[k].keyword = kw
                      /\ \A j \in DOMAIN arg_list : arg_list[j].keyword = kw => j <= k
    IN  [kw \in kws |-> get_node_value(ns, arg_list[last(kw)])]

\* the positional values listed as the loop visits the arguments
get_arguments_unsorted(ns, node) ==
    IF \E k \in DOMAIN node.arguments : node.arguments[k] \notin Ids(ns)
    THEN [err |-> "NullValueError", args |-> <<>>, kwargs |-> <<>>]
    ELSE LET arg_list == [k \in DOMAIN node.arguments |-> NodeOf(ns, node.arguments[k])]
             arg_nodes == SelectSeq(arg_list, LAMBDA a : a.keyword = "")
         IN  [err |-> "",
              args |-> [k \in DOMAIN arg_nodes |-> get_node_value(ns, arg_nodes[k])],
              kwargs |-> KwargValues(ns, arg_list)]

\* Graph.get_arguments_from_call_node
get_arguments_from_call_node(ns, node) ==
    IF \E k \in DOMAIN node.arguments : node.arguments[k] \notin Ids(ns)
    THEN [err |-> "NullValueError", args |-> <<>>, kwargs |-> <<>>]
    ELSE LET arg_list == [k \in DOMAIN node.arguments |-> NodeOf(ns, node.arguments[k])]
             arg_nodes == SortByPosition(SelectSeq(arg_list, LAMBDA a : a.keyword = ""))
         IN  [err |-> "",
              args |-> [k \in DOMAIN arg_nodes |-> get_node_value(ns, arg_nodes[k])],
              kwargs |-> KwargValues(ns, arg_list)]

\* the orderings of a set of ids
Orderings(S) ==
    {p \in [1..Cardinality(S) -> S] : \A j, k \in DOMAIN p : j # k => p[j] # p[k]}

(***************************************************************************)
(* Call family: a LiteralNode, then up to MaxCallArgs ArgumentNodes, then  *)
(* one CallNode that lists the arguments in any order.  An argument holds  *)
(* a literal or refers to the LiteralNode, and is bound by a keyword or by *)
(* a positional index; no two arguments share a keyword or an index.       *)
(***************************************************************************)
AddCallFamilyNode ==
    /\ gpc = "input"
    /\ LET i == Len(nodes) + 1
           args == {k \in DOMAIN nodes : nodes[k].node_type = "ArgumentNode"}
       IN  \/ /\ nodes = <<>>
              /\ nodes' = <<BlankNode(i, "LiteralNode")>>
           \/ /\ nodes # <<>>
              /\ "CallNode" \notin TypesIn(nodes)
              /\ Cardinality(args) < MaxCallArgs
              /\ \E lit \in BOOLEAN, kw \in ArgKeywords \cup {""},
                    pos \in -1..(MaxCallArgs - 1) :
                   /\ (kw = "") # (pos = -1)
                   /\ \A k \in args : kw = "" \/ nodes[k].keyword # kw
                   /\ \A k \in args : pos = -1 \/ nodes[k].positional_order # pos
                   /\ nodes' = Append(nodes,
                        ArgumentNode(i, lit, IF lit THEN NoneId ELSE 1, kw, pos))
           \/ /\ args # {}
              /\ "CallNode" \notin TypesIn(nodes)
              /\ \E p \in Orderings({nodes[k].id : k \in args}) :
                   nodes' = Append(nodes, CallNode(i, p, NoneId, NoneId, 1))
    /\ UNCHANGED <<gpc, gerr, nx_nodes, nx_edges, edges, line_edges, sorted_desc, qres>>
    /\ UNCHANGED cvars

\* Graph.get_arguments_from_call_node on a CallNode of the graph
GetArguments ==
    /\ gpc = "built"
    /\ \E i \in Ids(nodes) :
         /\ NodeOf(nodes, i).node_type = "CallNode"
         /\ qres' = [op |-> "get_arguments_from_call_node", arg |-> i,
                     res |-> get_arguments_from_call_node(nodes, NodeOf(nodes, i))]
    /\ UNCHANGED <<nodes, gpc, gerr, nx_nodes, nx_edges, edges, line_edges, sorted_desc>>
    /\ UNCHANGED cvars

(***************************************************************************)
(* The execution context (lineapy/execution/context.py).                   *)
(*                                                                         *)
(* A mapping (a Python dict keyed by variable name) is a function on a     *)
(* subset of CtxNames.  A runtime value is an object, named by a number;   *)
(* the executor holds object k as the value of node id k.  Where Python    *)
(* iterates a dict in insertion order the model lists the names in the     *)
(* fixed order of NameOrder.                                               *)
(***************************************************************************)
CtxNames == {"x", "y"}

NameOrder == <<"x", "y">>

CtxIds == 1..MaxCtxIds

Objects == 1..MaxCtxIds

\* executor._id_to_value
id_to_value(i) == i

\* lineapy.execution.inspect_function.is_mutable, the mutability oracle:
\* object 1 is immutable, every other object is mutable
is_mutable(v) == v # 1

Mappings(S) == UNION {[D -> S] : D \in SUBSET CtxNames}

EmptyMapping == <<>>

\* the names of a mapping, as Python lists them
Keys(m) == SelectSeq(NameOrder, LAMBDA k : k \in DOMAIN m)

NoContext == [active |-> FALSE]

\* bool(x) of an Optional mapping: None and the empty dict are falsy
Truthy(m) == m.some /\ DOMAIN m.map # {}

\* ExecutorPointers
ID(i) == [kind |-> "ID", id |-> i, name |-> ""]

Variable(k) == [kind |-> "Variable", id |-> NoneId, name |-> k]

\* SideEffects
AccessedGlobals(retrieved, added_or_updated) ==
    [kind |-> "AccessedGlobals", retrieved |-> retrieved,
     added_or_updated |-> added_or_updated, pointers |-> <<>>]

MutatedNode(pointer) ==
    [kind |-> "MutatedNode", retrieved |-> <<>>, added_or_updated |-> <<>>,
     pointers |-> <<pointer>>]

\* the dataclass keeps the list it is given
ViewOfNodes(pointers) ==
    [kind |-> "ViewOfNodes", retrieved |-> <<>>, added_or_updated |-> <<>>,
     pointers |-> pointers]

\* GlobalsDict: the dict, the inputs it was set up with, and the input names
\* the body has read, in the order of their first read
EmptyGlobals == [dict |-> EmptyMapping, inputs |-> EmptyMapping, accessed |-> <<>>]

\* GlobalsDict.setup_globals
setup_globals(inputs) == [dict |-> inputs, inputs |-> inputs, accessed |-> <<>>]

\* the names added to the dict or bound to another object than at set-up
AddedOrModified(g) ==
    [k \in {n \in DOMAIN g.dict : n \notin DOMAIN g.inputs \/ g.dict[n] # g.inputs[n]}
       |-> g.dict[k]]

\* GlobalsDict.teardown_globals: the GlobalsDictResult (the dict is cleared)
teardown_globals(g) ==
    [accessed_inputs |-> SelectSeq(g.accessed, LAMBDA k : k \notin DOMAIN AddedOrModified(g)),
     added_or_modified |-> AddedOrModified(g)]

\* the context a successful set_context builds
ExecutionContext(node, input_node_ids, input_globals) ==
    [active |-> TRUE, node |-> node, input_node_ids |-> input_node_ids,
     input_globals_mutable |-> [k \in DOMAIN input_globals |-> is_mutable(input_globals[k])],
     side_effects |-> <<>>]

\* `variables or node.global_reads`
InputNodeIds(variables, node) ==
    IF Truthy(variables) THEN variables.map ELSE node.global_reads

NoResult == [op |-> "", err |-> "", ret |-> <<>>]

\* set_context without the `if _current_context: raise` guard
SetContextUnguarded ==
    /\ IF DOMAIN global_variables.dict # {}
       THEN /\ ctx_res' = [op |-> "set_context", err |-> "AssertionError", ret |-> <<>>]
            /\ UNCHANGED <<current_context, global_variables>>
       ELSE \E variables \in {[some |-> FALSE, map |-> EmptyMapping]}
                               \cup {[some |-> TRUE, map |-> m] : m \in Mappings(CtxIds)},
               node \in {[global_reads |-> m] : m \in Mappings(CtxIds)} :
              LET input_node_ids == InputNodeIds(variables, node)
                  input_globals == [k \in DOMAIN input_node_ids |->
                                      id_to_value(input_node_ids[k])]
              IN  /\ global_variables' = setup_globals(input_globals)
                  /\ current_context' = ExecutionContext(node, input_node_ids, input_globals)
                  /\ ctx_res' = [op |-> "set_context", err |-> "",
                                 ret |-> [variables |-> variables]]
    /\ UNCHANGED gvars

\* set_context(executor, variables, node)
SetContext ==
    /\ IF current_context.active
       THEN /\ ctx_res' = [op |-> "set_context", err |-> "RuntimeError", ret |-> <<>>]
            /\ UNCHANGED <<current_context, global_variables>>
       ELSE IF DOMAIN global_variables.dict # {}
       THEN /\ ctx_res' = [op |-> "set_context", err |-> "AssertionError", ret |-> <<>>]
            /\ UNCHANGED <<current_context, global_variables>>
       ELSE \E variables \in {[some |-> FALSE, map |-> EmptyMapping]}
                               \cup {[some |-> TRUE, map |-> m] : m \in Mappings(CtxIds)},
               node \in {[global_reads |-> m] : m \in Mappings(CtxIds)} :
              LET input_node_ids == InputNodeIds(variables, node)
                  input_globals == [k \in DOMAIN input_node_ids |->
                                      id_to_value(input_node_ids[k])]
              IN  /\ global_variables' = setup_globals(input_globals)
                  /\ current_context' = ExecutionContext(node, input_node_ids, input_globals)
                  /\ ctx_res' = [op |-> "set_context", err |-> "",
                                 ret |-> [variables |-> variables]]
    /\ UNCHANGED gvars

\* get_context()
GetContext ==
    /\ IF ~current_context.active
       THEN ctx_res' = [op |-> "get_context", err |-> "RuntimeError", ret |-> <<>>]
       ELSE ctx_res' = [op |-> "get_context", err |-> "", ret |-> current_context]
    /\ UNCHANGED <<current_context, global_variables>>
    /\ UNCHANGED gvars

\* lineapy._is_executing
is_executing == current_context.active

\* every read input taken as mutated, the mutability filter left out
mutable_input_vars_unfiltered(context, res) ==
    [j \in DOMAIN res.accessed_inputs |-> ID(context.input_node_ids[res.accessed_inputs[j]])]

\* _compute_side_effects(context, globals_result)
mutable_input_vars(context, res) ==
    LET names == SelectSeq(res.accessed_inputs,
                           LAMBDA k : context.input_globals_mutable[k])
    IN  [j \in DOMAIN names |-> ID(context.input_node_ids[names[j]])]

mutable_output_vars(res) ==
    LET names == SelectSeq(Keys(res.added_or_modified),
                           LAMBDA k : is_mutable(res.added_or_modified[k]))
    IN  [j \in DOMAIN names |-> Variable(names[j])]

\* the accessed-globals record yielded without the emptiness test
compute_side_effects_always_accessed(context, res) ==
    LET ins == mutable_input_vars(context, res)
        accessed_globals == AccessedGlobals(res.accessed_inputs, Keys(res.added_or_modified))
        view == ViewOfNodes(ins \o mutable_output_vars(res))
    IN  <<accessed_globals>>
        \o [j \in DOMAIN ins |-> MutatedNode(ins[j])]
        \o (IF Len(view.pointers) > 1 THEN <<view>> ELSE <<>>)

\* the view-group yielded ahead of the mutated-node records
compute_side_effects_view_first(context, res) ==
    LET ins == mutable_input_vars(context, res)
        accessed_globals == AccessedGlobals(res.accessed_inputs, Keys(res.added_or_modified))
        view == ViewOfNodes(ins \o mutable_output_vars(res))
    IN  (IF accessed_globals.added_or_updated # <<>> \/ accessed_globals.retrieved # <<>>
         THEN <<accessed_globals>> ELSE <<>>)
        \o (IF Len(view.pointers) > 1 THEN <<view>> ELSE <<>>)
        \o [j \in DOMAIN ins |-> MutatedNode(ins[j])]

compute_side_effects(context, res) ==
    LET ins == mutable_input_vars(context, res)
        accessed_globals == AccessedGlobals(res.accessed_inputs, Keys(res.added_or_modified))
        view == ViewOfNodes(ins \o mutable_output_vars(res))
    IN  (IF accessed_globals.added_or_updated # <<>> \/ accessed_globals.retrieved # <<>>
         THEN <<accessed_globals>> ELSE <<>>)
        \o [j \in DOMAIN ins |-> MutatedNode(ins[j])]
        \o (IF Len(view.pointers) > 1 THEN <<view>> ELSE <<>>)

\* teardown_context without `_current_context = None`
TeardownContextKeepsContext ==
    /\ IF ~current_context.active
       THEN /\ ctx_res' = [op |-> "teardown_context", err |-> "RuntimeError", ret |-> <<>>]
            /\ UNCHANGED <<current_context, global_variables>>
       ELSE LET res == teardown_globals(global_variables)
                prev_context == current_context
            IN  /\ global_variables' = EmptyGlobals
                /\ UNCHANGED current_context
                /\ ctx_res' =
                     [op |-> "teardown_context", err |-> "",
                      ret |-> [added_or_modified |-> res.added_or_modified,
                               side_effects |-> prev_context.side_effects
                                                  \o compute_side_effects(prev_context, res)]]
    /\ UNCHANGED gvars

\* teardown_context()
TeardownContext ==
    /\ IF ~current_context.active
       THEN /\ ctx_res' = [op |-> "teardown_context", err |-> "RuntimeError", ret |-> <<>>]
            /\ UNCHANGED <<current_context, global_variables>>
       ELSE LET res == teardown_globals(global_variables)
                prev_context == current_context
            IN  /\ global_variables' = EmptyGlobals
                /\ current_context' = NoContext
                /\ ctx_res' =
                     [op |-> "teardown_context", err |-> "",
                      ret |-> [added_or_modified |-> res.added_or_modified,
                               side_effects |-> prev_context.side_effects
                                                  \o compute_side_effects(prev_context, res)]]
    /\ UNCHANGED gvars

(***************************************************************************)
(* The call body, run by the executor between set_context and              *)
(* teardown_context.                                                       *)
(***************************************************************************)
\* the body reads a global: GlobalsDict.__getitem__ records an input's read
BodyRead ==
    /\ current_context.active
    /\ \E k \in DOMAIN global_variables.dict :
         global_variables' =
           [global_variables EXCEPT !.accessed =
              IF k \in DOMAIN global_variables.inputs /\ k \notin Range(@)
              THEN Append(@, k) ELSE @]
    /\ UNCHANGED <<current_context, ctx_res>>
    /\ UNCHANGED gvars

\* the body binds a global to an object
BodyWrite ==
    /\ current_context.active
    /\ \E k \in CtxNames, v \in Objects :
         global_variables' =
           [global_variables EXCEPT !.dict =
              [n \in DOMAIN @ \cup {k} |-> IF n = k THEN v ELSE @[n]]]
    /\ UNCHANGED <<current_context, ctx_res>>
    /\ UNCHANGED gvars

\* the side effects a body declares itself
PushedEffects == {MutatedNode(ID(1)), ViewOfNodes(<<ID(1), Variable("x")>>)}

\* the body appends to get_context().side_effects
BodyPush ==
    /\ current_context.active
    /\ Len(current_context.side_effects) < MaxPushed
    /\ \E e \in PushedEffects :
         current_context' = [current_context EXCEPT !.side_effects = Append(@, e)]
    /\ UNCHANGED <<global_variables, ctx_res>>
    /\ UNCHANGED gvars

CtxInitState ==
    /\ current_context = NoContext
    /\ global_variables = EmptyGlobals
    /\ ctx_res = NoResult

Init == GraphInitState /\ CtxInitState

NextGraph == AddNode \/ GraphInit \/ GraphQueries

NextLine == AddLineNode \/ GraphInit \/ GraphQueries

NextArgs == AddCallFamilyNode \/ GraphInit \/ GetArguments

NextCtx == SetContext \/ GetContext \/ TeardownContext \/ BodyRead \/ BodyWrite \/ BodyPush

\* graphs over the general family of node lists
SpecGraph == Init /\ [][NextGraph]_vars

\* graphs over the line-number family of node lists
SpecLine == Init /\ [][NextLine]_vars

\* graphs over the call family of node lists
SpecArgs == Init /\ [][NextArgs]_vars

\* the execution context
SpecCtx == Init /\ [][NextCtx]_vars

(***************************************************************************)
(* Vocabulary of the graph claims.  Cycles and paths are stated here over  *)
(* sets of edges, independently of the operators that model networkx.      *)
(***************************************************************************)
\* the edges the references of the node list give (Graph._edges, as a set)
ReferenceEdges == Range(edges)

\* the edges the line-number heuristic returned
LineEdges == Range(line_edges)

\* the edges of the graph after construction
GraphEdges == Range(nx_edges)

\* E holds a directed cycle: some non-empty set of endpoints in which every
\* node has a successor (following successors inside it must repeat a node)
HasCycle(E) ==
    LET V == {ed[1] : ed \in E} \cup {ed[2] : ed \in E}
    IN  \E S \in SUBSET V :
          /\ S # {}
          /\ \A u \in S : \E v \in S : <<u, v>> \in E

\* v is reachable from u along E: every set that holds u and is closed under
\* the edges of E holds v
Reaches(E, u, v) ==
    LET V == {ed[1] : ed \in E} \cup {ed[2] : ed \in E} \cup {u, v}
    IN  \A S \in SUBSET V :
          (u \in S /\ \A ed \in E : ed[1] \in S => ed[2] \in S) => v \in S

\* the position of x in the sequence s (0 when absent)
IndexOf(s, x) == IF x \in Range(s) THEN CHOOSE k \in DOMAIN s : s[k] = x ELSE 0

Constructed == gpc # "input"

\* C1: whenever the reference-derived edges of the node list form no cycle,
\* Graph construction does not raise "Graph should not be cyclic".
C1_AcyclicReferencesConstruct ==
    (Constructed /\ ~HasCycle(Range(get_edges_from_nodes(nodes))))
        => gerr # "InternalLogicError"

\* C2: visit_order returns every node id of the node list exactly once and
\* nothing else, and every edge u->v of the graph has u before v.
C2_VisitOrderLinearExtension ==
    qres.op = "visit_order" =>
        /\ Range(qres.res) = Ids(nodes)
        /\ Len(qres.res) = Cardinality(Ids(nodes))
        /\ \A ed \in ReferenceEdges \cup LineEdges :
             /\ IndexOf(qres.res, ed[1]) > 0
             /\ IndexOf(qres.res, ed[1]) < IndexOf(qres.res, ed[2])

\* C3: whenever the derived edges (reference and line-number edges) hold a
\* directed cycle, construction fails with the structural-integrity error
\* and no graph is produced.
C3_CycleRejected ==
    (Constructed /\ HasCycle(ReferenceEdges \cup LineEdges))
        => (gpc = "failed" /\ gerr = "InternalLogicError")

\* C3's case: a Read and a Write StateChangeNode that reference each other
\* were handed to the constructor, and it failed.
C3_Witness ==
    /\ gpc = "failed"
    /\ gerr = "InternalLogicError"
    /\ \E j, k \in DOMAIN nodes :
         /\ nodes[j].node_type = "StateChangeNode"
         /\ nodes[j].state_dependency_type = "Read"
         /\ nodes[j].initial_value_node_id = nodes[k].id
         /\ nodes[k].node_type = "StateChangeNode"
         /\ nodes[k].state_dependency_type = "Write"
         /\ nodes[k].associated_node_id = nodes[j].id

\* the node an alias chain ends at: the first node that is no VariableNode,
\* NoNode when a link of the chain names an id that is no node
RECURSIVE ChainEnd(_, _)
ChainEnd(ns, node) ==
    IF node # NoNode /\ node.node_type = "VariableNode"
    THEN ChainEnd(ns, get_node(ns, node.source_variable_id))
    ELSE node

\* C8: get_node_value on the head of an alias chain that ends at a node of
\* the graph returns what get_node_value returns for that terminal node,
\* whatever the terminal's variant.
C8_AliasChainResolvesToTerminal ==
    qres.op = "get_node_value" =>
        LET terminal == ChainEnd(nodes, NodeOf(nodes, qres.arg))
        IN  terminal # NoNode => qres.res = get_node_value(nodes, terminal)

\* C9: get_node_value on a VariableNode whose alias chain is broken (the head
\* or a later link names an id that is no node) returns None, without raising.
C9_BrokenChainYieldsNone ==
    qres.op = "get_node_value" =>
        LET head == NodeOf(nodes, qres.arg)
        IN  (head.node_type = "VariableNode" /\ ChainEnd(nodes, head) = NoNode)
                => qres.res = NoneValue

\* the consecutive pairs <<a, b>> of the sorted descendant calls of the
\* DataSourceNodes
ConsecutivePairs ==
    UNION {{<<sorted_desc[d][k], sorted_desc[d][k + 1]>> :
              k \in 1..(Len(sorted_desc[d]) - 1)} : d \in DOMAIN sorted_desc}

HadEdge(a, b) == <<a, b>> \in ReferenceEdges \/ <<b, a>> \in ReferenceEdges

\* the edges construction added to the reference-derived ones
NewEdges == GraphEdges \ ReferenceEdges

LineOf(i) == NodeOf(nodes, i).lineno

\* every DataSourceNode's list holds its descendant CallNodes, each once,
\* ascending in line number
SortedDescendantCalls ==
    \A d \in DOMAIN sorted_desc :
        LET ds == sorted_desc[d] IN
          /\ d \in DataSourceIds(nodes)
          /\ \A x \in Range(ds) : NodeOf(nodes, x).node_type = "CallNode"
          /\ Range(ds) = {x \in Ids(nodes) :
                            /\ NodeOf(nodes, x).node_type = "CallNode"
                            /\ x # d
                            /\ Reaches(ReferenceEdges, d, x)}
          /\ \A j, k \in DOMAIN ds : j < k => (ds[j] # ds[k] /\ LineOf(ds[j]) <= LineOf(ds[k]))

\* C10: a consecutive pair with no reference-derived edge in
\* either direction receives exactly one new edge, a->b; a pair that had one
\* receives none, and no reference-derived edge is lost.
C10_LineEdgesExactlyOne ==
    Constructed =>
        /\ SortedDescendantCalls
        /\ ReferenceEdges \subseteq GraphEdges
        /\ \A p \in ConsecutivePairs :
             NewEdges \cap {<<p[1], p[2]>>, <<p[2], p[1]>>} =
                 IF HadEdge(p[1], p[2]) THEN {} ELSE {<<p[1], p[2]>>}

\* the ids the reference fields of the nodes name that are no node of the list
DanglingReferences ==
    {ed[1] : ed \in Range(get_edges_from_nodes(nodes))} \ Ids(nodes)

\* C12: construction fails with the structural-integrity error whenever a
\* reference field names an id that is no node of the supplied list, so that
\* every edge endpoint of a constructed graph is one of its own nodes.
C12_DanglingReferenceRejected ==
    Constructed =>
        /\ DanglingReferences # {} => (gpc = "failed" /\ gerr = "InternalLogicError")
        /\ gpc = "built" =>
             \A ed \in GraphEdges : ed[1] \in Ids(nodes) /\ ed[2] \in Ids(nodes)

\* an ArgumentNode without a value (no literal, no value reference) or
\* without a binding slot (no keyword, no positional index)
Malformed(n) ==
    /\ n.node_type = "ArgumentNode"
    /\ \/ ~n.has_literal /\ n.value_node_id = NoneId
       \/ n.keyword = "" /\ n.positional_order = -1

\* C13: a node list that holds a malformed ArgumentNode is not accepted into
\* a Graph: construction fails.
C13_MalformedArgumentRejected ==
    (Constructed /\ \E k \in DOMAIN nodes : Malformed(nodes[k])) => gpc = "failed"

\* the arguments of the queried call that carry a keyword, the others, and
\* what an argument of the call family resolves to
KeywordArgs(call) == {i \in Range(call.arguments) : NodeOf(nodes, i).keyword # ""}

PositionalArgs(call) == Range(call.arguments) \ KeywordArgs(call)

ResolvedValue(i) ==
    IF NodeOf(nodes, i).has_literal THEN <<"value_literal", i>>
    ELSE <<"value", NodeOf(nodes, i).value_node_id>>

\* the positional argument with exactly k - 1 positional arguments of a
\* smaller positional index
KthPositional(call, k) ==
    CHOOSE i \in PositionalArgs(call) :
        Cardinality({j \in PositionalArgs(call) :
                       NodeOf(nodes, j).positional_order
                         < NodeOf(nodes, i).positional_order}) = k - 1

\* C11: get_arguments_from_call_node partitions the call's arguments: the
\* keyword mapping holds exactly the keywords of the arguments that carry
\* one, each with its argument's resolved value; the positional list holds
\* the resolved values of the other arguments, ascending in positional
\* index whatever the order of the call's argument list.
C11_ArgumentsPartitioned ==
    qres.op = "get_arguments_from_call_node" =>
        LET call == NodeOf(nodes, qres.arg)
            res == qres.res
        IN  /\ res.err = ""
            /\ DOMAIN res.kwargs = {NodeOf(nodes, i).keyword : i \in KeywordArgs(call)}
            /\ \A i \in KeywordArgs(call) :
                 res.kwargs[NodeOf(nodes, i).keyword] = ResolvedValue(i)
            /\ Len(res.args) = Cardinality(PositionalArgs(call))
            /\ \A k \in DOMAIN res.args : res.args[k] = ResolvedValue(KthPositional(call, k))

\* C11's case: a call that lists the argument of positional index 1, then
\* the argument of positional index 0, then a keyword argument "b", was
\* queried, and the positional list came back with index 0 first.
C11_Witness ==
    /\ qres.op = "get_arguments_from_call_node"
    /\ LET call == NodeOf(nodes, qres.arg) IN
         /\ Len(call.arguments) = 3
         /\ NodeOf(nodes, call.arguments[1]).positional_order = 1
         /\ NodeOf(nodes, call.arguments[2]).positional_order = 0
         /\ NodeOf(nodes, call.arguments[3]).keyword = "b"
         /\ qres.res.args = <<ResolvedValue(call.arguments[2]),
                              ResolvedValue(call.arguments[1])>>
         /\ DOMAIN qres.res.kwargs = {"b"}

(***************************************************************************)
(* Vocabulary of the execution-context claims.                             *)
(***************************************************************************)
Idle == ~current_context.active

\* a step in which a context call other than a repeat of the last one returned
Called(op) == ctx_res' # ctx_res /\ ctx_res'.op = op

\* a successful teardown: the only step that ends a context
TeardownStep == current_context.active /\ ~current_context'.active

\* the records teardown inferred: what follows the body's own side effects
Inferred ==
    SubSeq(ctx_res'.ret.side_effects, Len(current_context.side_effects) + 1,
           Len(ctx_res'.ret.side_effects))

\* how many records of s satisfy P
Count(s, P(_)) == Cardinality({j \in DOMAIN s : P(s[j])})

\* C4: a call in the wrong lifecycle state raises and changes nothing:
\* set_context while Active leaves the active context and the managed
\* globals as they are, teardown_context and get_context while Idle leave
\* the state Idle; an active context is never replaced by another.
C4_WrongStateCallsRejected ==
    [][/\ (Called("set_context") /\ current_context.active) =>
            /\ ctx_res'.err = "RuntimeError"
            /\ current_context' = current_context
            /\ global_variables' = global_variables
       /\ ((Called("teardown_context") \/ Called("get_context")) /\ Idle) =>
            /\ ctx_res'.err = "RuntimeError"
            /\ ~current_context'.active
            /\ global_variables' = global_variables
       /\ (current_context.active /\ current_context'.active) =>
            /\ current_context'.node = current_context.node
            /\ current_context'.input_node_ids = current_context.input_node_ids
            /\ current_context'.input_globals_mutable = current_context.input_globals_mutable
      ]_vars

\* C4's case: set_context was called while a context was active, and raised.
C4_Witness ==
    /\ current_context.active
    /\ ctx_res.op = "set_context"
    /\ ctx_res.err = "RuntimeError"
    /\ Len(current_context.side_effects) > 0
    /\ DOMAIN global_variables.dict # {}

\* a set_context call that succeeds
SetContextSucceeds == SetContext /\ current_context'.active

\* C5: after a successful teardown_context the system is Idle (get_context
\* fails, _is_executing is false); whenever it is Idle the managed globals are
\* empty, so set_context never raises the internal-state error and the next
\* set_context can succeed.
C5_IdleIsClean ==
    /\ (ctx_res.op = "teardown_context" /\ ctx_res.err = "") => ~is_executing
    /\ Idle => DOMAIN global_variables.dict = {}
    /\ Idle => ENABLED SetContextSucceeds
    /\ (Idle /\ ctx_res.op = "get_context") => ctx_res.err = "RuntimeError"
    /\ ctx_res.err # "AssertionError"

\* C5's case: a teardown succeeded after a body had bound names in the managed
\* globals, and the system is Idle.
C5_Witness ==
    /\ Idle
    /\ ctx_res.op = "teardown_context"
    /\ ctx_res.err = ""
    /\ DOMAIN ctx_res.ret.added_or_modified = CtxNames

\* the input names read and not rebound, whose value at set_context is mutable
MutableReadInputs ==
    {k \in DOMAIN current_context.input_node_ids :
        /\ k \in Range(global_variables.accessed)
        /\ k \in DOMAIN global_variables.dict
        /\ global_variables.dict[k] = id_to_value(current_context.input_node_ids[k])
        /\ is_mutable(id_to_value(current_context.input_node_ids[k]))}

IsMutatedNode(e) == e.kind = "MutatedNode"

IsViewOfNodes(e) == e.kind = "ViewOfNodes"

\* C6: teardown infers one mutated-node record per input name that was read
\* without being rebound and whose value at set_context was mutable, carrying
\* the node id the name was bound to at set_context, and no other
\* mutated-node record.
C6_MutatedNodePerMutableReadInput ==
    [][TeardownStep =>
         /\ \A i \in CtxIds :
              Count(Inferred, LAMBDA e : IsMutatedNode(e) /\ e.pointers = <<ID(i)>>)
                = Cardinality({k \in MutableReadInputs : current_context.input_node_ids[k] = i})
         /\ Count(Inferred, IsMutatedNode)
              = Cardinality(MutableReadInputs)
      ]_vars

\* C6's case: a teardown returned a mutated-node record for node id 2, which
\* no body pushes, together with an accessed-globals record of two read names.
C6_Witness ==
    /\ ctx_res.op = "teardown_context"
    /\ ctx_res.err = ""
    /\ \E j \in DOMAIN ctx_res.ret.side_effects :
         ctx_res.ret.side_effects[j] = MutatedNode(ID(2))
    /\ \E j \in DOMAIN ctx_res.ret.side_effects :
         /\ ctx_res.ret.side_effects[j].kind = "AccessedGlobals"
         /\ Len(ctx_res.ret.side_effects[j].retrieved) = 2

\* the view-group candidates: the mutated input references and the names of
\* the added or modified outputs whose new value is mutable
ViewCandidates ==
    {ID(current_context.input_node_ids[k]) : k \in MutableReadInputs}
    \cup {Variable(k) : k \in {n \in DOMAIN AddedOrModified(global_variables) :
                                 is_mutable(global_variables.dict[n])}}

\* C7: teardown infers exactly one view-group record when the candidate set
\* has two or more members and none otherwise, and every inferred view-group
\* holds at least two distinct references.
C7_ViewGroupOfDistinctReferences ==
    [][TeardownStep =>
         /\ Count(Inferred, IsViewOfNodes)
              = (IF Cardinality(ViewCandidates) >= 2 THEN 1 ELSE 0)
         /\ \A j \in DOMAIN Inferred :
              IsViewOfNodes(Inferred[j]) => Cardinality(Range(Inferred[j].pointers)) >= 2
      ]_vars

\* C14: the list teardown_context returns starts with the side effects the
\* body pushed while the context was active, in the order they were pushed,
\* the inferred records follow them, and among the inferred records every
\* mutated-node record comes before the view-group record.
C14_PushedThenMutatedThenView ==
    [][TeardownStep =>
         LET out == ctx_res'.ret.side_effects
             pushed == current_context.side_effects
         IN  /\ Len(out) >= Len(pushed)
             /\ SubSeq(out, 1, Len(pushed)) = pushed
             /\ \A j, k \in (Len(pushed) + 1)..Len(out) :
                  (IsMutatedNode(out[j]) /\ IsViewOfNodes(out[k])) => j < k
      ]_vars

\* C14's case: a teardown returned two pushed side effects (a view-group,
\* then a mutated-node record) followed by inferred records that hold both a
\* mutated-node record and a view-group.
C14_Witness ==
    /\ ctx_res.op = "teardown_context"
    /\ ctx_res.err = ""
    /\ Len(ctx_res.ret.side_effects) >= 5
    /\ IsViewOfNodes(ctx_res.ret.side_effects[1])
    /\ IsMutatedNode(ctx_res.ret.side_effects[2])
    /\ ctx_res.ret.side_effects[3].kind = "AccessedGlobals"
    /\ \E j, k \in 4..Len(ctx_res.ret.side_effects) :
         /\ IsMutatedNode(ctx_res.ret.side_effects[j])
         /\ IsViewOfNodes(ctx_res.ret.side_effects[k])

\* C15: a successful set_context takes the input names and node ids from the
\* supplied mapping whenever one is supplied, an empty one included, and from
\* the node's global_reads only when none is supplied; the names bound into
\* the managed globals and the names with a mutability flag are the names of
\* that mapping.
C15_SuppliedMappingChosen ==
    [][(Called("set_context") /\ ctx_res'.err = "") =>
         LET variables == ctx_res'.ret.variables
             chosen == IF variables.some THEN variables.map
                       ELSE current_context'.node.global_reads
         IN  /\ current_context'.input_node_ids = chosen
             /\ DOMAIN global_variables'.dict = DOMAIN chosen
             /\ DOMAIN current_context'.input_globals_mutable = DOMAIN chosen
      ]_vars

\* the input names the body has read, and the names it added or rebound
ReadNames == Range(global_variables.accessed)

ChangedNames == DOMAIN AddedOrModified(global_variables)

IsAccessedGlobals(e) == e.kind = "AccessedGlobals"

\* C16: teardown infers exactly one accessed-globals record when the body
\* read an input name or added or modified a name, and none when it did
\* neither; the record lists every such name, the added or modified ones as
\* added_or_updated and the others, which were read, as retrieved.
C16_AccessedGlobalsWhenNonEmpty ==
    [][TeardownStep =>
         /\ Count(Inferred, IsAccessedGlobals)
              = (IF ReadNames \cup ChangedNames # {} THEN 1 ELSE 0)
         /\ \A j \in DOMAIN Inferred :
              IsAccessedGlobals(Inferred[j]) =>
                /\ Range(Inferred[j].added_or_updated) = ChangedNames
                /\ Range(Inferred[j].retrieved) = ReadNames \ ChangedNames
      ]_vars

\* C16's case: a teardown returned an accessed-globals record that names a
\* read input and an added or modified name.
C16_Witness ==
    /\ ctx_res.op = "teardown_context"
    /\ ctx_res.err = ""
    /\ \E j \in DOMAIN ctx_res.ret.side_effects :
         /\ IsAccessedGlobals(ctx_res.ret.side_effects[j])
         /\ ctx_res.ret.side_effects[j].retrieved = <<"x">>
         /\ ctx_res.ret.side_effects[j].added_or_updated = <<"y">>

====
